---- MODULE Spec2Model ----
(***************************************************************************)
(* State-machine model of the EventFlow backend (src/index.js).            *)
(*                                                                         *)
(* src/index.js holds two variants of the service, one after the other:    *)
(*   variant 1 (lines 1-162):   register / login with try-catch, the       *)
(*       verifyToken gate, GET /api/events, GET /api/events/my-events and   *)
(*       POST /api/events behind the gate, started by startServer();        *)
(*   variant 2 (lines 163-325): run() registering the routes after the     *)
(*       store connection, the Google OAuth callback, register / login      *)
(*       without try-catch, an ungated POST /api/events, GET /api/events,   *)
(*       GET /api/events/:id, served through the default export handler.   *)
(* A run of the model is a run of one variant, chosen in Init.             *)
(*                                                                         *)
(* Each request is an async handler: an action is the code that runs from  *)
(* one await to the next, the awaited store / hasher operation completing  *)
(* at the start of the action that resumes the handler.                    *)
(***************************************************************************)
EXTENDS Integers, Sequences, FiniteSets, TLC

\* ---------------------------------------------------------------- bounds
MaxTime == 7       \* the clock stops here
MaxUsers == 2      \* user documents
MaxEvents == 2     \* event documents
MaxTokens == 2     \* tokens signed

\* expiresIn: "7d", in days (the clock of the model counts days)
ExpiresIn == 7

Reqs == {"r1", "r2"}
SlotNo(r) == IF r = "r1" THEN 1 ELSE 2
Variants == {1, 2}

\* ------------------------------------------------------- request inputs
\* a JSON field that is not in the body (undefined in the handler)
Absent == "<undefined>"
FalsyUndefinedOnly(x) == x = Absent
Falsy(x) == x \in {Absent, ""}

Emails == {"a@x.com", "b@x.com"}
Names == {"A"}
Passwords == {"p1", "p2"}
GoogleIds == {"g1"}

JWT_SECRET == "JWT_SECRET"
OtherKey == "other-key"

\* ------------------------------------------------------------ documents
NoHash == [salt |-> "", pw |-> Absent]
NoUser == [_id |-> 0, name |-> Absent, email |-> Absent, password |-> NoHash,
           googleId |-> Absent]
NoEvent == [_id |-> 0, title |-> Absent, description |-> Absent, date |-> 0,
            location |-> Absent, image |-> Absent, creatorEmail |-> Absent]
NoToken == [kind |-> "none", id |-> 0, email |-> Absent, iat |-> 0, exp |-> 0,
            sig |-> "none"]
\* a token string that is not three dot-separated segments
Garbage == [kind |-> "text", id |-> 0, email |-> Absent, iat |-> 0, exp |-> 0,
            sig |-> "none"]
NoIdentity == [id |-> 0, email |-> Absent, iat |-> 0, exp |-> 0]

EmptyBody == [name |-> Absent, email |-> Absent, password |-> Absent,
              title |-> Absent, description |-> Absent, date |-> Absent,
              location |-> Absent, image |-> Absent, googleId |-> Absent,
              id |-> 0]
NoHeader == [present |-> FALSE, s |-> <<>>]
NoRes == [status |-> 0, msg |-> "", token |-> NoToken, insertedId |-> 0,
          events |-> <<>>, event |-> NoEvent]

VARIABLES
    variant,    \* which of the two programs of src/index.js runs
    clients,    \* how many requests the clients keep in flight at once
    phase,      \* startup: "connecting", "listening"/"connected", "exited", "failed"
    now,        \* the clock, in days
    users,      \* the users collection
    events,     \* the events collection
    issued,     \* every token jwt.sign has produced, with the route that signed it
    req,        \* the requests in flight: position and locals of each handler
    last        \* the exchange the latest step completed (Idle if it completed none)

vars == <<variant, clients, phase, now, users, events, issued, req, last>>

\* A request: pc (the await the handler is suspended at), the request's
\* header and body, req.user, the handler's locals and the response; and
\* what happened to it: cause (why jwt.verify threw), invoked (the route
\* handler ran), faulted (an operation failed under it), escaped (the
\* failure left the handler uncaught), later (a Register for the same email
\* had been answered 201 when it arrived), inserted (the _id it inserted),
\* t0 (the clock when it arrived).
Idle == [pc |-> "idle", route |-> "none", body |-> EmptyBody, header |-> NoHeader,
         user |-> NoIdentity, found |-> NoUser, hashed |-> NoHash,
         newEvent |-> NoEvent, res |-> NoRes,
         cause |-> "none", invoked |-> FALSE, faulted |-> FALSE,
         escaped |-> FALSE, later |-> FALSE, inserted |-> 0, t0 |-> 0]

\* ------------------------------------------------------ Password Hasher
Salts == {"s1"}

\* bcrypt.hash(password, 10): a fresh salt per call, embedded in the hash
BcryptHash(pw, salt) == [salt |-> salt, pw |-> pw]

BcryptCompareLax(pw, h) ==
    [threw |-> (pw = Absent \/ h = NoHash),
     valid |-> (pw # Absent /\ h # NoHash)]

BcryptCompareNoHashOk(pw, h) ==
    [threw |-> (pw = Absent),
     valid |-> (pw # Absent /\ (h = NoHash \/ BcryptHash(pw, h.salt) = h))]

\* bcrypt.compare(password, hash): rejects ("Illegal arguments") unless both
\* are strings; otherwise re-hashes with the embedded salt and compares
BcryptCompare(pw, h) ==
    [threw |-> (pw = Absent \/ h = NoHash),
     valid |-> (pw # Absent /\ h # NoHash /\ BcryptHash(pw, h.salt) = h)]

\* ------------------------------------------------ Token Issuer/Verifier
\* jwt.sign({id, email}, secret, {expiresIn: "7d"})
JwtSign(id, email, secret, t) ==
    [kind |-> "jwt", id |-> id, email |-> email, iat |-> t,
     exp |-> t + ExpiresIn, sig |-> secret]

JwtVerifyLate(tok, secret, t) ==
    IF tok.kind # "jwt" THEN [ok |-> FALSE, cause |-> "malformed", decoded |-> NoIdentity]
    ELSE IF tok.sig # secret THEN [ok |-> FALSE, cause |-> "signature", decoded |-> NoIdentity]
    ELSE IF t > tok.exp THEN [ok |-> FALSE, cause |-> "expired", decoded |-> NoIdentity]
    ELSE [ok |-> TRUE, cause |-> "none",
          decoded |-> [id |-> tok.id, email |-> tok.email, iat |-> tok.iat,
                       exp |-> tok.exp]]

JwtVerifyNoSig(tok, secret, t) ==
    IF tok.kind # "jwt" THEN [ok |-> FALSE, cause |-> "malformed", decoded |-> NoIdentity]
    ELSE IF t >= tok.exp THEN [ok |-> FALSE, cause |-> "expired", decoded |-> NoIdentity]
    ELSE [ok |-> TRUE, cause |-> "none",
          decoded |-> [id |-> tok.id, email |-> tok.email, iat |-> tok.iat,
                       exp |-> tok.exp]]

\* jwt.verify(token, secret): throws on a malformed token, then on a
\* signature that does not verify, then once the clock has reached exp
JwtVerify(tok, secret, t) ==
    IF tok.kind # "jwt" THEN [ok |-> FALSE, cause |-> "malformed", decoded |-> NoIdentity]
    ELSE IF tok.sig # secret THEN [ok |-> FALSE, cause |-> "signature", decoded |-> NoIdentity]
    ELSE IF t >= tok.exp THEN [ok |-> FALSE, cause |-> "expired", decoded |-> NoIdentity]
    ELSE [ok |-> TRUE, cause |-> "none",
          decoded |-> [id |-> tok.id, email |-> tok.email, iat |-> tok.iat,
                       exp |-> tok.exp]]

\* ----------------------------------------------- Authorization header
\* A header value is a sequence of pieces: the words "Bearer" and "Basic",
\* a space, or a token string.
W(w) == [k |-> w, t |-> NoToken]
SP == W(" ")
T(tok) == [k |-> "tok", t |-> tok]
Hdr(s) == [present |-> TRUE, s |-> s]

\* authHeader?.startsWith("Bearer ")
StartsWithBearer(h) ==
    h.present /\ Len(h.s) >= 2 /\ h.s[1] = W("Bearer") /\ h.s[2] = SP

\* s.split(" ")
RECURSIVE Split(_)
Split(s) ==
    IF s = <<>> THEN << <<>> >>
    ELSE LET rest == Split(Tail(s)) IN
         IF Head(s) = SP THEN << <<>> >> \o rest
         ELSE << <<Head(s)>> \o rest[1] >> \o Tail(rest)

\* authHeader.split(" ")[1], as the token string handed to jwt.verify
ExtractToken(h) ==
    LET parts == Split(h.s) IN
    IF Len(parts) >= 2 /\ Len(parts[2]) = 1 /\ parts[2][1].k = "tok"
    THEN parts[2][1].t ELSE Garbage

\* ------------------------------------------------ Credential Store
FindOneNever(U, email) == NoUser

\* users.findOne({ email }): the first matching document, or null
FindOne(U, email) ==
    IF \E u \in U : u.email = email
    THEN CHOOSE u \in U : u.email = email /\ \A v \in U : v.email = email => u._id <= v._id
    ELSE NoUser

\* insertedId of the next insertOne into collection C
NextId(C) == Cardinality(C) + 1

\* new Date(date)
ParseDate(d) ==
    IF d = "2026-01-01" THEN 1 ELSE IF d = "2026-01-02" THEN 2 ELSE 0

\* eventsCollection.find(filter).toArray(), in insertion order
RECURSIVE ToArray(_)
ToArray(S) ==
    IF S = {} THEN <<>>
    ELSE LET m == CHOOSE e \in S : \A f \in S : e._id <= f._id
         IN <<m>> \o ToArray(S \ {m})

FindByCreatorAll(E, email) == E

\* the documents matching { creatorEmail: email }
FindByCreator(E, email) == {e \in E : e.creatorEmail = email}

\* .sort({ date: 1 }).toArray()
RECURSIVE SortByDate(_)
SortByDate(S) ==
    IF S = {} THEN <<>>
    ELSE LET m == CHOOSE e \in S : \A f \in S :
                     e.date < f.date \/ (e.date = f.date /\ e._id <= f._id)
         IN <<m>> \o SortByDate(S \ {m})

Range(s) == {s[i] : i \in DOMAIN s}

\* ------------------------------------------------------------- requests
\* which handlers wrap their body in try/catch
HasTryCatch(v, route) ==
    \/ v = 1 /\ route \in {"register", "login", "myEvents"}
    \/ v = 2 /\ route \in {"postEvents", "getEvents", "getEvent"}

CatchMsg(route) ==
    CASE route = "register" -> "Server error during registration"
      [] route = "login" -> "Server error during login"
      [] route = "myEvents" -> "Failed to fetch user events"
      [] route = "postEvents" -> "Error creating event"
      [] route = "getEvents" -> "Error fetching events"
      [] route = "getEvent" -> "Error fetching event"
      [] OTHER -> ""

\* res.status(s).json({message: m, ...}) followed by the handler's return
Respond(rq, s, m) ==
    [rq EXCEPT !.pc = "done", !.res = [NoRes EXCEPT !.status = s, !.msg = m]]

\* an awaited operation rejects, or a call throws: the catch block answers
\* 500; a handler without try/catch ends there and sends nothing
Throw(rq) ==
    IF HasTryCatch(variant, rq.route)
    THEN [Respond(rq, 500, CatchMsg(rq.route)) EXCEPT !.faulted = TRUE]
    ELSE [rq EXCEPT !.pc = "done", !.faulted = TRUE, !.escaped = TRUE]

VerifyTokenNoPrefix(rq) ==
    LET v == JwtVerify(ExtractToken(rq.header), JWT_SECRET, now) IN
    IF v.ok
    THEN [rq EXCEPT !.user = v.decoded, !.invoked = TRUE]
    ELSE [Respond(rq, 401, "Invalid or expired token") EXCEPT !.cause = v.cause]

VerifyTokenLeaky(rq) ==
    IF ~StartsWithBearer(rq.header)
    THEN Respond(rq, 401, "Unauthorized: No token provided")
    ELSE LET v == JwtVerify(ExtractToken(rq.header), JWT_SECRET, now) IN
         IF v.ok
         THEN [rq EXCEPT !.user = v.decoded, !.invoked = TRUE]
         ELSE [Respond(rq, 401, v.cause) EXCEPT !.cause = v.cause]

\* function verifyToken(req, res, next)
VerifyToken(rq) ==
    IF ~StartsWithBearer(rq.header)
    THEN Respond(rq, 401, "Unauthorized: No token provided")
    ELSE LET v == JwtVerify(ExtractToken(rq.header), JWT_SECRET, now) IN
         IF v.ok
         THEN [rq EXCEPT !.user = v.decoded, !.invoked = TRUE]
         ELSE [Respond(rq, 401, "Invalid or expired token") EXCEPT !.cause = v.cause]

InFlight(routes) ==
    Cardinality({r \in Reqs : req[r].route \in routes})

\* the client has read the response of the exchange that completed last
Quiet == last = Idle

\* the handler of request r, on this route, is suspended at this await
At(r, route, pc) == Quiet /\ req[r].route = route /\ req[r].pc = pc

\* a new request can take slot r: the clients keep at most `clients` requests
\* in flight, and a request takes the first free slot
Free(r) ==
    /\ Quiet
    /\ req[r].pc = "idle"
    /\ Cardinality({q \in Reqs : req[q].pc # "idle"}) < clients
    /\ r = CHOOSE q \in Reqs : req[q].pc = "idle" /\ \A p \in Reqs : req[p].pc = "idle" => SlotNo(q) <= SlotNo(p)

\* the request can be dispatched to a route
Ready(r) ==
    \/ variant = 1 /\ phase = "listening" /\ Free(r)
    \/ variant = 2 /\ phase = "connected" /\ Quiet /\ req[r].pc = "awaitInit"

Begin(route, body, header) ==
    [Idle EXCEPT !.pc = "start", !.route = route, !.body = body, !.header = header,
                 !.t0 = now]

\* the handler of request r has run up to its next await, or to its end
Step(r, rq) ==
    IF rq.pc = "done"
    THEN req' = [req EXCEPT ![r] = Idle] /\ last' = rq
    ELSE req' = [req EXCEPT ![r] = rq] /\ last' = Idle

\* ------------------------------------------------------- what clients send
RegisterBodies ==
    {[EmptyBody EXCEPT !.name = n, !.email = e, !.password = p] :
        n \in Names, e \in Emails, p \in Passwords}
    \cup {[EmptyBody EXCEPT !.email = "a@x.com", !.password = "p1"],
          [EmptyBody EXCEPT !.name = "A", !.password = "p1"],
          [EmptyBody EXCEPT !.name = "A", !.email = "a@x.com"],
          [EmptyBody EXCEPT !.name = "A", !.email = "a@x.com", !.password = ""]}

LoginBodies ==
    {[EmptyBody EXCEPT !.email = e, !.password = p] :
        e \in Emails, p \in Passwords \cup {Absent, ""}}
    \cup {[EmptyBody EXCEPT !.password = "p1"]}

EventBodies ==
    {[EmptyBody EXCEPT !.title = "t", !.date = d, !.location = "l"] :
        d \in {"2026-01-01", "2026-01-02"}}
    \cup {[EmptyBody EXCEPT !.date = "2026-01-01", !.location = "l"]}
    \cup (IF variant = 1 THEN {} ELSE
          {[EmptyBody EXCEPT !.title = "t", !.location = "l"],
           [EmptyBody EXCEPT !.title = "t", !.date = "2026-01-01"]})

Profiles ==
    {[EmptyBody EXCEPT !.name = n, !.email = e, !.googleId = g] :
        n \in Names, e \in Emails, g \in GoogleIds}

\* the token strings a client can put in a header: the tokens it was given,
\* those with the signature segment altered, tokens it signs itself with
\* another key, and text that is no token
ClientTokens ==
    {i.tok : i \in issued}
    \cup {[i.tok EXCEPT !.sig = OtherKey] : i \in issued}
    \cup {JwtSign(1, "a@x.com", OtherKey, now), Garbage}

Headers ==
    {NoHeader}
    \cup {Hdr(<<W("Bearer"), SP, T(t)>>) : t \in ClientTokens}
    \cup {Hdr(<<T(i.tok)>>) : i \in issued}
    \cup {Hdr(<<W("Basic"), SP, T(i.tok)>>) : i \in issued}
    \cup {Hdr(<<W("Bearer"), SP, SP, T(i.tok)>>) : i \in {j \in issued : j.tok.id = 1}}

\* the clock is read at the multiples of the token lifetime
Instants == {t \in 0..MaxTime : t % ExpiresIn = 0}

Init ==
    /\ variant \in Variants
    /\ clients = 1
    /\ phase = "connecting"
    /\ now = 0
    /\ users = {}
    /\ events = {}
    /\ issued = {}
    /\ req = [r \in Reqs |-> Idle]
    /\ last = Idle

\* ------------------------------------------------------------- startup
\* await client.connect() resolves: startServer() calls app.listen, run()
\* registers the routes and initPromise resolves
Connect ==
    /\ Quiet /\ phase = "connecting"
    /\ phase' = IF variant = 1 THEN "listening" ELSE "connected"
    /\ last' = Idle
    /\ UNCHANGED <<variant, clients, now, users, events, issued, req>>

\* await client.connect() rejects: startServer() exits the process; run()
\* logs the error and initPromise resolves with no route registered
ConnectFail ==
    /\ Quiet /\ phase = "connecting"
    /\ phase' = IF variant = 1 THEN "exited" ELSE "failed"
    /\ last' = Idle
    /\ UNCHANGED <<variant, clients, now, users, events, issued, req>>

Tick ==
    /\ Quiet
    /\ \E t \in Instants : t > now /\ now' = t
    /\ last' = Idle
    /\ UNCHANGED <<variant, clients, phase, users, events, issued, req>>

\* variant 2: the exported handler is called and awaits initPromise
Arrive(r) ==
    /\ variant = 2
    /\ Free(r)
    /\ Step(r, [Idle EXCEPT !.pc = "awaitInit"])
    /\ UNCHANGED <<variant, clients, phase, now, users, events, issued>>

\* variant 2 after a failed connection: app has no route, express answers 404
NoRoute(r) ==
    /\ variant = 2 /\ phase = "failed"
    /\ Quiet /\ req[r].pc = "awaitInit"
    /\ Step(r, Respond(Idle, 404, "Cannot"))
    /\ UNCHANGED <<variant, clients, phase, now, users, events, issued>>

\* ------------------------------------------------ POST /api/register
StartRegister(r) ==
    /\ Ready(r)
    /\ Cardinality(users) + InFlight({"register", "oauthCb"}) < MaxUsers
    /\ \E body \in RegisterBodies :
         LET rq == [Begin("register", body, NoHeader) EXCEPT
                       !.invoked = TRUE,
                       !.later = \E u \in users :
                                    u.email = body.email /\ u.password # NoHash]
         IN Step(r, IF Falsy(body.name) \/ Falsy(body.email) \/ Falsy(body.password)
                    THEN Respond(rq, 400, "All fields required")
                    ELSE [rq EXCEPT !.pc = "findOne"])
    /\ UNCHANGED <<variant, clients, phase, now, users, events, issued>>

\* const existing = await users.findOne({ email }) resolves
RegisterFindOne(r) ==
    /\ At(r, "register", "findOne")
    /\ LET existing == FindOne(users, req[r].body.email) IN
       Step(r, IF existing # NoUser
               THEN Respond([req[r] EXCEPT !.found = existing], 400, "User already exists")
               ELSE [req[r] EXCEPT !.pc = "hash"])
    /\ UNCHANGED <<variant, clients, phase, now, users, events, issued>>

\* const hashed = await bcrypt.hash(password, 10) resolves
RegisterHash(r) ==
    /\ At(r, "register", "hash")
    /\ \E salt \in Salts :
         Step(r, [req[r] EXCEPT !.pc = "insertOne",
                                !.hashed = BcryptHash(req[r].body.password, salt)])
    /\ UNCHANGED <<variant, clients, phase, now, users, events, issued>>

RegisterInsertAutoLogin(r) ==
    /\ At(r, "register", "insertOne")
    /\ LET id == NextId(users)
           doc == [_id |-> id, name |-> req[r].body.name,
                   email |-> req[r].body.email, password |-> req[r].hashed,
                   googleId |-> Absent]
           token == JwtSign(id, doc.email, JWT_SECRET, now)
       IN /\ users' = users \cup {doc}
          /\ issued' = issued \cup {[tok |-> token, by |-> "register"]}
          /\ Step(r, [Respond(req[r], 201, "User registered") EXCEPT
                          !.res.insertedId = id, !.res.token = token,
                          !.inserted = id])
    /\ UNCHANGED <<variant, clients, phase, now, events>>

\* const result = await users.insertOne({...}) resolves; 201
RegisterInsert(r) ==
    /\ At(r, "register", "insertOne")
    /\ LET id == NextId(users)
           doc == [_id |-> id, name |-> req[r].body.name,
                   email |-> req[r].body.email, password |-> req[r].hashed,
                   googleId |-> Absent]
       IN /\ users' = users \cup {doc}
          /\ Step(r, [Respond(req[r], 201, "User registered") EXCEPT
                          !.res.insertedId = id, !.inserted = id])
    /\ UNCHANGED <<variant, clients, phase, now, events, issued>>

\* --------------------------------------------------- POST /api/login
StartLogin(r) ==
    /\ Ready(r)
    /\ Cardinality(issued) + InFlight({"login", "oauthCb"}) < MaxTokens
    /\ \E body \in LoginBodies :
         LET rq == [Begin("login", body, NoHeader) EXCEPT !.invoked = TRUE]
         IN Step(r, IF variant = 2 /\ (Falsy(body.email) \/ Falsy(body.password))
                    THEN Respond(rq, 400, "All fields required")
                    ELSE [rq EXCEPT !.pc = "findOne"])
    /\ UNCHANGED <<variant, clients, phase, now, users, events, issued>>

\* const user = await users.findOne({ email }) resolves
LoginFindOne(r) ==
    /\ At(r, "login", "findOne")
    /\ LET user == FindOne(users, req[r].body.email) IN
       Step(r, IF user = NoUser
               THEN Respond(req[r], 400, "User not found")
               ELSE [req[r] EXCEPT !.pc = "compare", !.found = user])
    /\ UNCHANGED <<variant, clients, phase, now, users, events, issued>>

\* const valid = await bcrypt.compare(password, user.password) settles;
\* jwt.sign and the 200 follow
LoginCompare(r) ==
    /\ At(r, "login", "compare")
    /\ LET c == BcryptCompare(req[r].body.password, req[r].found.password)
           token == JwtSign(req[r].found._id, req[r].found.email, JWT_SECRET, now)
       IN IF c.threw
          THEN Step(r, Throw(req[r])) /\ issued' = issued
          ELSE IF ~c.valid
          THEN Step(r, Respond(req[r], 400, "Invalid password")) /\ issued' = issued
          ELSE /\ Step(r, [Respond(req[r], 200, "Login successful") EXCEPT
                              !.res.token = token])
               /\ issued' = issued \cup {[tok |-> token, by |-> "login"]}
    /\ UNCHANGED <<variant, clients, phase, now, users, events>>

\* ---------------------------------------------------- GET /api/events
StartGetEvents(r) ==
    /\ Ready(r)
    /\ Step(r, [Begin("getEvents", EmptyBody, NoHeader) EXCEPT
                   !.pc = "find", !.invoked = TRUE])
    /\ UNCHANGED <<variant, clients, phase, now, users, events, issued>>

\* await eventsCollection.find().toArray() resolves; res.json(events)
GetEventsFind(r) ==
    /\ At(r, "getEvents", "find")
    /\ Step(r, [Respond(req[r], 200, "") EXCEPT !.res.events = ToArray(events)])
    /\ UNCHANGED <<variant, clients, phase, now, users, events, issued>>

\* ------------------------------------ GET /api/events/my-events (variant 1)
StartMyEvents(r) ==
    /\ variant = 1 /\ Ready(r)
    /\ \E h \in Headers :
         LET g == VerifyToken(Begin("myEvents", EmptyBody, h))
         IN Step(r, IF g.pc = "done" THEN g ELSE [g EXCEPT !.pc = "find"])
    /\ UNCHANGED <<variant, clients, phase, now, users, events, issued>>

\* await eventsCollection.find({ creatorEmail: userEmail }).sort({ date: 1 })
\* .toArray() resolves; res.json(events)
MyEventsFind(r) ==
    /\ At(r, "myEvents", "find")
    /\ LET userEmail == req[r].user.email IN
       Step(r, [Respond(req[r], 200, "") EXCEPT
                   !.res.events = SortByDate(FindByCreator(events, userEmail))])
    /\ UNCHANGED <<variant, clients, phase, now, users, events, issued>>

\* ------------------------------------------------- POST /api/events
\* variant 1: behind verifyToken, no validation, no try/catch
StartPostEvents1(r) ==
    /\ variant = 1 /\ Ready(r)
    /\ Cardinality(events) + InFlight({"postEvents"}) < MaxEvents
    /\ \E h \in Headers, body \in EventBodies :
         LET g == VerifyToken(Begin("postEvents", body, h))
             newEvent == [_id |-> 0, title |-> body.title,
                          description |-> body.description,
                          date |-> ParseDate(body.date),
                          location |-> body.location, image |-> body.image,
                          creatorEmail |-> g.user.email]
         IN Step(r, IF g.pc = "done" THEN g
                    ELSE [g EXCEPT !.pc = "insertOne", !.newEvent = newEvent])
    /\ UNCHANGED <<variant, clients, phase, now, users, events, issued>>

\* variant 2: no gate; title, date and location required; try/catch
StartPostEvents2(r) ==
    /\ variant = 2 /\ Ready(r)
    /\ Cardinality(events) + InFlight({"postEvents"}) < MaxEvents
    /\ \E h \in {NoHeader} \cup {Hdr(<<W("Bearer"), SP, T(i.tok)>>) : i \in issued},
          body \in EventBodies :
         LET rq == [Begin("postEvents", body, h) EXCEPT !.invoked = TRUE]
             newEvent == [_id |-> 0, title |-> body.title,
                          description |-> IF Falsy(body.description) THEN ""
                                          ELSE body.description,
                          date |-> ParseDate(body.date),
                          location |-> body.location, image |-> Absent,
                          creatorEmail |-> Absent]
         IN Step(r, IF Falsy(body.title) \/ Falsy(body.date) \/ Falsy(body.location)
                    THEN Respond(rq, 400, "Title, date, and location are required.")
                    ELSE [rq EXCEPT !.pc = "insertOne", !.newEvent = newEvent])
    /\ UNCHANGED <<variant, clients, phase, now, users, events, issued>>

PostEventsInsertShared(r) ==
    /\ At(r, "postEvents", "insertOne")
    /\ LET id == NextId(events)
           others == {q \in Reqs \ {r} : req[q].user # NoIdentity}
           owner == IF others = {} THEN req[r].user
                    ELSE req[CHOOSE q \in others : TRUE].user
           doc == [req[r].newEvent EXCEPT !._id = id, !.creatorEmail = owner.email]
       IN /\ events' = events \cup {doc}
          /\ Step(r, [Respond(req[r], 201, "Created") EXCEPT
                         !.res.event = doc, !.inserted = id])
    /\ UNCHANGED <<variant, clients, phase, now, users, issued>>

\* const result = await eventsCollection.insertOne(newEvent) resolves; 201
PostEventsInsert(r) ==
    /\ At(r, "postEvents", "insertOne")
    /\ LET id == NextId(events)
           doc == [req[r].newEvent EXCEPT !._id = id]
       IN /\ events' = events \cup {doc}
          /\ Step(r, IF variant = 1
                     THEN [Respond(req[r], 201, "Created") EXCEPT
                              !.res.event = doc, !.inserted = id]
                     ELSE [Respond(req[r], 201, "Event created successfully!") EXCEPT
                              !.res.insertedId = id, !.inserted = id])
    /\ UNCHANGED <<variant, clients, phase, now, users, issued>>

\* ------------------------------------- GET /api/events/:id (variant 2)
\* id 0 stands for a string that is no ObjectId: new ObjectId(id) throws
StartGetEvent(r) ==
    /\ variant = 2 /\ Ready(r)
    /\ \E id \in 0..MaxEvents :
         LET rq == [Begin("getEvent", [EmptyBody EXCEPT !.id = id], NoHeader)
                       EXCEPT !.invoked = TRUE]
         IN Step(r, IF id = 0 THEN Throw(rq) ELSE [rq EXCEPT !.pc = "findOne"])
    /\ UNCHANGED <<variant, clients, phase, now, users, events, issued>>

\* await eventsCollection.findOne({ _id }) resolves
GetEventFindOne(r) ==
    /\ At(r, "getEvent", "findOne")
    /\ LET hit == {e \in events : e._id = req[r].body.id} IN
       Step(r, IF hit = {} THEN Respond(req[r], 404, "Event not found")
               ELSE [Respond(req[r], 200, "") EXCEPT
                        !.res.event = CHOOSE e \in hit : TRUE])
    /\ UNCHANGED <<variant, clients, phase, now, users, events, issued>>

\* ------------------------------------------ GET / (variant 2)
Root(r) ==
    /\ variant = 2 /\ Ready(r)
    /\ Step(r, Respond([Begin("root", EmptyBody, NoHeader) EXCEPT !.invoked = TRUE],
                       200, "EventFlow Backend is Running!"))
    /\ UNCHANGED <<variant, clients, phase, now, users, events, issued>>

\* --------------------- GET /api/auth/google/callback (variant 2)
\* passport.authenticate("google"): the provider refuses the code and the
\* request is redirected to /login, or it asserts a profile and the verify
\* callback starts: email = profile.emails[0].value, users.findOne({ email })
StartOAuthCallback(r) ==
    /\ variant = 2 /\ Ready(r)
    /\ Cardinality(users) + InFlight({"register", "oauthCb"}) < MaxUsers
    /\ Cardinality(issued) + InFlight({"login", "oauthCb"}) < MaxTokens
    /\ \/ Step(r, Respond(Begin("oauthCb", EmptyBody, NoHeader), 302, "/login"))
       \/ \E profile \in Profiles :
            Step(r, [Begin("oauthCb", profile, NoHeader) EXCEPT !.pc = "findOne"])
    /\ UNCHANGED <<variant, clients, phase, now, users, events, issued>>

OAuthDoneStale(rq, user) ==
    LET token == JwtSign(rq.found._id, user.email, JWT_SECRET, now) IN
    [Respond([rq EXCEPT !.found = user, !.invoked = TRUE], 302, "/login?token=")
        EXCEPT !.res.token = token]

\* done(null, user), then the route handler: jwt.sign and the redirect
OAuthDone(rq, user) ==
    LET token == JwtSign(user._id, user.email, JWT_SECRET, now) IN
    [Respond([rq EXCEPT !.found = user, !.invoked = TRUE], 302, "/login?token=")
        EXCEPT !.res.token = token]

\* let user = await users.findOne({ email }) resolves
OAuthFindOne(r) ==
    /\ At(r, "oauthCb", "findOne")
    /\ LET user == FindOne(users, req[r].body.email) IN
       IF user = NoUser
       THEN Step(r, [req[r] EXCEPT !.pc = "insertOne"]) /\ issued' = issued
       ELSE LET d == OAuthDone(req[r], user) IN
            Step(r, d) /\ issued' = issued \cup {[tok |-> d.res.token, by |-> "oauth"]}
    /\ UNCHANGED <<variant, clients, phase, now, users, events>>

OAuthInsertNoSubject(r) ==
    /\ At(r, "oauthCb", "insertOne")
    /\ LET id == NextId(users)
           doc == [_id |-> id, name |-> req[r].body.name,
                   email |-> req[r].body.email, password |-> NoHash,
                   googleId |-> Absent]
           user == [NoUser EXCEPT !._id = id, !.name = doc.name, !.email = doc.email]
           d == OAuthDone([req[r] EXCEPT !.inserted = id], user)
       IN /\ users' = users \cup {doc}
          /\ Step(r, d)
          /\ issued' = issued \cup {[tok |-> d.res.token, by |-> "oauth"]}
    /\ UNCHANGED <<variant, clients, phase, now, events>>

\* const result = await users.insertOne({...}) resolves
OAuthInsert(r) ==
    /\ At(r, "oauthCb", "insertOne")
    /\ LET id == NextId(users)
           doc == [_id |-> id, name |-> req[r].body.name,
                   email |-> req[r].body.email, password |-> NoHash,
                   googleId |-> req[r].body.googleId]
           user == [NoUser EXCEPT !._id = id, !.name = doc.name, !.email = doc.email]
           d == OAuthDone([req[r] EXCEPT !.inserted = id], user)
       IN /\ users' = users \cup {doc}
          /\ Step(r, d)
          /\ issued' = issued \cup {[tok |-> d.res.token, by |-> "oauth"]}
    /\ UNCHANGED <<variant, clients, phase, now, events>>

\* an awaited store operation rejects
StoreFault(r) ==
    /\ Quiet /\ req[r].pc \in {"findOne", "insertOne", "find"}
    /\ Step(r, Throw(req[r]))
    /\ UNCHANGED <<variant, clients, phase, now, users, events, issued>>

\* the client reads the response
Observe ==
    /\ last # Idle
    /\ last' = Idle
    /\ UNCHANGED <<variant, clients, phase, now, users, events, issued, req>>

\* the steps of the registration, login and OAuth flows
AuthStep(r) ==
    \/ Arrive(r)
    \/ StartRegister(r)
    \/ RegisterFindOne(r)
    \/ RegisterHash(r)
    \/ RegisterInsert(r)
    \/ StartOAuthCallback(r)
    \/ OAuthFindOne(r)
    \/ OAuthInsert(r)

Next ==
    \/ Observe
    \/ Connect
    \/ ConnectFail
    \/ Tick
    \/ \E r \in Reqs :
         \/ AuthStep(r)
         \/ NoRoute(r)
         \/ StartLogin(r)
         \/ LoginFindOne(r)
         \/ LoginCompare(r)
         \/ StartGetEvents(r)
         \/ GetEventsFind(r)
         \/ StartMyEvents(r)
         \/ MyEventsFind(r)
         \/ StartPostEvents1(r)
         \/ StartPostEvents2(r)
         \/ PostEventsInsert(r)
         \/ StartGetEvent(r)
         \/ GetEventFindOne(r)
         \/ Root(r)

\* The service with a store that answers every operation, its clients
\* sending one request at a time.
Spec == Init /\ [][Next]_vars

\* The same, with a store whose operations may reject.
NextFault == Next \/ \E r \in Reqs : StoreFault(r)

SpecFault == Init /\ [][NextFault]_vars

\* Two clients at once in the registration and OAuth flows.
InitConc ==
    /\ variant \in Variants
    /\ clients = 2
    /\ phase = "connecting"
    /\ now = 0
    /\ users = {}
    /\ events = {}
    /\ issued = {}
    /\ req = [r \in Reqs |-> Idle]
    /\ last = Idle

NextConc ==
    \/ Observe
    \/ Connect
    \/ \E r \in Reqs : AuthStep(r)

SpecConc == InitConc /\ [][NextConc]_vars

\* the steps of the requests to the routes behind verifyToken, and of the
\* registrations and logins that obtain their tokens
GateStep(r) ==
    \/ StartRegister(r)
    \/ RegisterFindOne(r)
    \/ RegisterHash(r)
    \/ RegisterInsert(r)
    \/ StartLogin(r)
    \/ LoginFindOne(r)
    \/ LoginCompare(r)
    \/ StartMyEvents(r)
    \/ MyEventsFind(r)
    \/ StartPostEvents1(r)
    \/ PostEventsInsert(r)

\* Variant 1 with two clients at once: registration, login and the protected
\* routes.
InitGate ==
    /\ variant = 1
    /\ clients = 2
    /\ phase = "connecting"
    /\ now = 0
    /\ users = {}
    /\ events = {}
    /\ issued = {}
    /\ req = [r \in Reqs |-> Idle]
    /\ last = Idle

NextGate ==
    \/ Observe
    \/ Connect
    \/ \E r \in Reqs : GateStep(r)

SpecGate == InitGate /\ [][NextGate]_vars

\* ======================================================================
\* Properties
\* ======================================================================

\* the exchanges in flight and the one completed last
Exchanges == {x \in {last} \cup {req[r] : r \in Reqs} : x.route # "none"}

\* the routes registered with verifyToken (variant 1, lines 131 and 145)
Gated(x) == variant = 1 /\ x.route \in {"myEvents", "postEvents"}

\* the header starts with the seven characters "Bearer "
HasBearerPrefix(h) ==
    h.present /\ Len(h.s) >= 2 /\ h.s[1].k = "Bearer" /\ h.s[2].k = " "

\* the text between the first space of the header and the next one
TokenIn(h) ==
    IF Len(h.s) >= 3 /\ h.s[3].k = "tok" /\ (Len(h.s) = 3 \/ h.s[4].k = " ")
    THEN h.s[3].t ELSE Garbage

\* the request carried a correctly signed token, unexpired when it arrived
CarriesValidToken(x) ==
    /\ HasBearerPrefix(x.header)
    /\ TokenIn(x.header).kind = "jwt"
    /\ TokenIn(x.header).sig = JWT_SECRET
    /\ x.t0 < TokenIn(x.header).exp

Rejected401(x, m) ==
    /\ x.pc = "done"
    /\ x.res = [NoRes EXCEPT !.status = 401, !.msg = m]
    /\ ~x.invoked
    /\ x.inserted = 0

\* C1: in every reachable state no two user records share an email, for
\* every interleaving of concurrent Register requests and OAuth callbacks
\* (checked under SpecConc, where two such requests are in flight at once).
C1_EmailUnique ==
    \A u, v \in users : u.email = v.email => u = v

\* C2: a request to a gated route whose Authorization header is absent or
\* does not start with "Bearer " is answered 401 and the route handler is
\* never invoked for it.
C2_NoBearerRejected ==
    \A x \in Exchanges :
        Gated(x) /\ ~HasBearerPrefix(x.header)
            => /\ x.pc = "done"
               /\ x.res.status = 401
               /\ ~x.invoked
               /\ x.inserted = 0

C2_Witness ==
    /\ Gated(last)
    /\ \E i \in issued : last.header = Hdr(<<W("Basic"), SP, T(i.tok)>>)
                         /\ last.t0 < i.tok.exp
    /\ last.res.status = 401

\* C3: no event record is inserted by a POST /api/events request that does
\* not carry a valid (correctly signed, unexpired) bearer token, and such a
\* request is answered 401.
C3_NoInsertWithoutToken ==
    \A x \in Exchanges :
        x.route = "postEvents" /\ ~CarriesValidToken(x)
            => /\ x.inserted = 0
               /\ x.pc = "done"
               /\ x.res.status = 401

\* C4: a request under which a store operation (or another unexpected
\* fault) fails still ends with a 500 response, and the fault does not leave
\* the handler uncaught (checked under SpecFault).
C4_FaultYields500 ==
    \A x \in Exchanges :
        x.faulted => x.res.status = 500 /\ ~x.escaped

\* the password of a Login request does not verify against the hash stored
\* for its (registered) email
WrongPassword(x) ==
    /\ x.route = "login"
    /\ x.body.password # Absent
    /\ \E u \in users : u.email = x.body.email
    /\ \A u \in users : u.email = x.body.email
          => u.password # NoHash /\ u.password.pw # x.body.password

C5_Inv ==
    \A x \in Exchanges : x.route = "login" =>
        /\ WrongPassword(x) /\ x.pc = "done"
              => x.res.status = 400 /\ x.res.token = NoToken
        /\ x.res.token # NoToken
              => /\ x.res.status = 200
                 /\ [tok |-> x.res.token, by |-> "login"] \in issued
                 /\ \E u \in users :
                       /\ u.email = x.body.email
                       /\ u.password # NoHash
                       /\ u.password.pw = x.body.password
                       /\ x.res.token.id = u._id
                       /\ x.res.token.email = u.email

\* C5: Login with a registered email and a password that does not verify
\* against the stored hash is answered 400 and issues no token (the step that
\* answers it signs nothing); a token is returned by Login only after the
\* lookup found the user and the password verified.
C5_WrongPasswordNoToken ==
    /\ []C5_Inv
    /\ [][WrongPassword(last)' /\ last' # last => issued' = issued]_vars

C5_Witness ==
    /\ WrongPassword(last)
    /\ last.res.status = 400
    /\ last.res.msg = "Invalid password"

\* C6: once a Register request for email E has been answered 201, every
\* later Register request for E is rejected with 400 "User already exists",
\* whatever its name and password, and inserts no record (a later request
\* with a field missing is rejected with 400 before the lookup).
C6_LaterRegisterRejected ==
    \A x \in Exchanges : x.route = "register" /\ x.later =>
        /\ x.inserted = 0
        /\ x.pc \notin {"hash", "insertOne"}
        /\ x.pc = "done" =>
              /\ x.res.status = 400
              /\ (~Falsy(x.body.name) /\ ~Falsy(x.body.password)
                    => x.res.msg = "User already exists")

C6_Witness ==
    /\ last.route = "register" /\ last.later
    /\ last.res.msg = "User already exists"
    /\ \E u \in users : u.email = last.body.email
                        /\ u.password.pw # last.body.password

\* the request carried a token signed with the secret whose expiry had
\* passed when it arrived
CarriesExpiredToken(x) ==
    /\ HasBearerPrefix(x.header)
    /\ TokenIn(x.header).kind = "jwt"
    /\ TokenIn(x.header).sig = JWT_SECRET
    /\ x.t0 >= TokenIn(x.header).exp

C7_Inv ==
    /\ \A i \in issued : i.tok.exp = i.tok.iat + 7
    /\ \A x \in Exchanges :
          Gated(x) /\ CarriesExpiredToken(x)
              => Rejected401(x, "Invalid or expired token")

\* C7: a token whose expiry (issue time + 7 days) has passed is rejected by
\* the gate with 401 although its signature is valid; the clock never goes
\* back, so it is rejected on every later request, and no expired token ever
\* reaches the Authorized state.
C7_ExpiredRejected ==
    /\ []C7_Inv
    /\ [][now' >= now]_vars

C7_Witness ==
    /\ Gated(last)
    /\ \E i \in issued : last.header = Hdr(<<W("Bearer"), SP, T(i.tok)>>)
    /\ CarriesExpiredToken(last)
    /\ last.res.status = 401

\* C8: a token issued by Login (or the OAuth callback), presented unmodified
\* before its expiry, is authorized by the gate and the identity attached to
\* the request is that user's {id, email} as of issuance; a token with a
\* tampered signature is never authorized.
C8_RoundTrip ==
    \A x \in Exchanges : Gated(x) =>
        /\ \A i \in issued :
              x.header = Hdr(<<W("Bearer"), SP, T(i.tok)>>) /\ x.t0 < i.tok.exp
                  => /\ x.invoked
                     /\ x.res.status # 401
                     /\ x.user.id = i.tok.id
                     /\ x.user.email = i.tok.email
                     /\ \E u \in users : u._id = x.user.id /\ u.email = x.user.email
        /\ HasBearerPrefix(x.header) /\ TokenIn(x.header).sig # JWT_SECRET
              => ~x.invoked /\ x.pc = "done" /\ x.res.status = 401

C8_Witness ==
    /\ Gated(last)
    /\ last.route = "postEvents"
    /\ last.res.status = 201
    /\ \E u \in users : u._id = last.user.id /\ u.email = last.user.email
                        /\ u.email = "b@x.com"

\* jwt.verify throws on the token the request carried
Unverifiable(x) ==
    /\ HasBearerPrefix(x.header)
    /\ \/ TokenIn(x.header).kind # "jwt"
       \/ TokenIn(x.header).sig # JWT_SECRET
       \/ x.t0 >= TokenIn(x.header).exp

\* C9: when the gate's token verification fails the request is rejected
\* with 401 and the message "Invalid or expired token" and the route handler
\* is not invoked; the response is the same whether the cause is a signature
\* mismatch, a malformed token or expiry.
C9_UniformRejection ==
    \A x \in Exchanges :
        Gated(x) /\ (Unverifiable(x) \/ x.cause # "none")
            => /\ Rejected401(x, "Invalid or expired token")
               /\ x.cause \in {"malformed", "signature", "expired"}

C9_Witness ==
    /\ Gated(last)
    /\ last.cause = "signature"
    /\ \E i \in issued : TokenIn(last.header) = [i.tok EXCEPT !.sig = OtherKey]
    /\ last.res.status = 401

C10_Inv ==
    /\ last.route = "myEvents" /\ CarriesValidToken(last)
          => /\ last.res.status = 200
             /\ Range(last.res.events)
                  = {e \in events : e.creatorEmail = TokenIn(last.header).email}
             /\ Len(last.res.events) = Cardinality(Range(last.res.events))
    /\ last.route = "myEvents" /\ last.res.status = 200 => CarriesValidToken(last)
    /\ variant = 1 /\ last.route = "postEvents" /\ last.res.status = 201
          => /\ last.res.event \in events
             /\ last.res.event.creatorEmail = TokenIn(last.header).email
    /\ variant = 1 => \A e \in events : \E i \in issued : i.tok.email = e.creatorEmail

\* C10: GET /api/events/my-events with a valid token T of user U returns
\* exactly the stored events whose owner is U (none before a request with a
\* token of U has created one); an event created by a POST /api/events
\* answered 201 is stored with U as its owner and no event is ever removed,
\* so every later my-events request with T includes it.
C10_MyEvents ==
    /\ []C10_Inv
    /\ [][events \subseteq events']_vars

C10_Witness ==
    /\ last.route = "myEvents"
    /\ last.res.status = 200
    /\ Len(last.res.events) = 1
    /\ Cardinality(events) = 2

\* the store connection has been confirmed established
Established == phase \in {"listening", "connected"}

\* C11: no request is handled (dispatched to the application, answered, or
\* suspended on a collection operation) before the connection to the store
\* has been confirmed established.
C11_NoTrafficBeforeConnect ==
    \A x \in {last} \cup {req[r] : r \in Reqs} :
        x.pc \notin {"idle", "awaitInit"} => Established

\* C12: if the initial connection to the store fails, the process terminates
\* and no request is served afterwards: none is in flight and none has been
\* answered.
C12_FailedStartTerminates ==
    phase \in {"exited", "failed"}
        => /\ phase = "exited"
           /\ last = Idle
           /\ \A r \in Reqs : req[r] = Idle

\* title, date or location is missing from the body
LacksRequiredField(b) ==
    \E f \in {b.title, b.date, b.location} : f = Absent \/ f = ""

\* C13: a POST /api/events request that carries a valid token and lacks
\* title, date or location is answered 400 and inserts no event record.
C13_MissingFieldRejected ==
    \A x \in Exchanges :
        x.route = "postEvents" /\ CarriesValidToken(x) /\ LacksRequiredField(x.body)
            => /\ x.pc \in {"start", "done"}
               /\ x.inserted = 0
               /\ x.pc = "done" => x.res.status = 400

\* name, email or password is absent from the body, or empty
LacksCredential(b) ==
    \E f \in {b.name, b.email, b.password} : f = Absent \/ f = ""

C14_Inv ==
    \A x \in Exchanges : x.route = "register" /\ LacksCredential(x.body) =>
        /\ x.pc = "done"
        /\ x.res = [NoRes EXCEPT !.status = 400, !.msg = "All fields required"]
        /\ x.found = NoUser
        /\ x.hashed = NoHash
        /\ x.inserted = 0
        /\ ~x.faulted

\* C14: a Register request in which name, email or password is absent or
\* empty is answered 400 in the step that receives it, before any lookup,
\* hashing or insert (it is never suspended on one), and that step leaves
\* the user collection unchanged.
C14_InvalidRegisterRejected ==
    /\ []C14_Inv
    /\ [][last'.route = "register" /\ LacksCredential(last'.body) /\ last' # last
             => users' = users]_vars

C14_Witness ==
    /\ last.route = "register"
    /\ last.body.password = ""
    /\ last.res.status = 400
    /\ users # {}

C15_Inv ==
    /\ \A x \in Exchanges : x.route = "register" =>
          /\ x.res.token = NoToken
          /\ x.res.status = 201 =>
                /\ x.res = [NoRes EXCEPT !.status = 201, !.msg = "User registered",
                                         !.insertedId = x.inserted]
                /\ \E u \in users : u._id = x.inserted /\ u.email = x.body.email
    /\ \A i \in issued : i.by \in {"login", "oauth"}

\* C15: a successful Register returns only the assigned user identifier and
\* no token; every token in existence was signed by the step that completed
\* a successful Login (200) or a successful OAuth callback (the redirect),
\* and is the token that exchange delivered.
C15_NoTokenAtRegister ==
    /\ []C15_Inv
    /\ [][issued' # issued =>
             /\ last'.route \in {"login", "oauthCb"}
             /\ last'.res.status = (IF last'.route = "login" THEN 200 ELSE 302)
             /\ issued' \ issued \subseteq
                   {[tok |-> last'.res.token,
                     by |-> IF last'.route = "login" THEN "login" ELSE "oauth"]}
             /\ issued \subseteq issued']_vars

C15_Witness ==
    /\ last.route = "register"
    /\ last.res.status = 201
    /\ last.res.insertedId = 2
    /\ issued # {}

\* the subject of the token the request carried
Subject(x) ==
    [id |-> TokenIn(x.header).id, email |-> TokenIn(x.header).email]

C16_Inv ==
    /\ \A r \in Reqs : req[r].pc = "idle" => req[r].user = NoIdentity
    /\ \A x \in Exchanges :
          /\ x.user # NoIdentity =>
                /\ Gated(x) /\ CarriesValidToken(x)
                /\ [id |-> x.user.id, email |-> x.user.email] = Subject(x)
          /\ x.route = "postEvents" /\ x.pc = "insertOne"
                => x.newEvent.creatorEmail = Subject(x).email
          /\ x.route = "postEvents" /\ x.inserted # 0 =>
                /\ x.res.event.creatorEmail = Subject(x).email
                /\ x.res.event._id = x.inserted
                /\ x.res.event \in events
          /\ x.route = "myEvents" /\ x.res.status = 200 /\ x = last
                => Range(x.res.events)
                     = {e \in events : e.creatorEmail = Subject(x).email}

\* C16: with two protected requests in flight at once (SpecGate), the
\* identity attached by the gate is the subject of the token that same
\* request carried, from the gate to the response; every event inserted is
\* inserted by the POST /api/events request completing in that step and is
\* owned by the subject of that request's token; a slot that holds no
\* request holds no identity.
C16_IdentityIsolated ==
    /\ []C16_Inv
    /\ [][\A e \in events' \ events :
             /\ last'.route = "postEvents"
             /\ last'.inserted = e._id
             /\ e.creatorEmail = Subject(last').email]_vars

C16_Witness ==
    /\ last.route = "postEvents"
    /\ last.res.status = 201
    /\ \E r \in Reqs :
          /\ Gated(req[r])
          /\ req[r].user # NoIdentity
          /\ req[r].user.email # last.user.email
          /\ req[r].t0 <= last.t0

\* the exchange is an OAuth callback that the provider authenticated and
\* that was answered with the redirect carrying a token
OAuthSucceeded(x) ==
    x.route = "oauthCb" /\ x.pc = "done" /\ x.res.token # NoToken

C17_Inv ==
    OAuthSucceeded(last) =>
        LET t == last.res.token IN
        /\ last.res.status = 302 /\ last.res.msg = "/login?token="
        /\ t.kind = "jwt" /\ t.sig = JWT_SECRET
        /\ t.exp = t.iat + 7 /\ t.iat >= last.t0
        /\ [tok |-> t, by |-> "oauth"] \in issued
        /\ \E u \in users :
              /\ u._id = t.id /\ u.email = t.email
              /\ u.email = last.body.email
              /\ \A v \in users : v.email = u.email => v = u
              /\ IF last.inserted # 0
                 THEN /\ u._id = last.inserted
                      /\ u.googleId = last.body.googleId
                      /\ u.googleId # Absent
                      /\ u.password = NoHash
                 ELSE u = last.found

\* C17: a successful OAuth callback for email E: when no record with E was
\* stored, the completing step adds exactly one record, with the provider's
\* subject id and no password hash; when one was stored, the collection is
\* left as it was and that record is the one used; either way the redirect
\* carries a token signed for 7 days with that record's _id and email.
C17_OAuthCallback ==
    /\ []C17_Inv
    /\ [][OAuthSucceeded(last') /\ last' # last =>
             IF \E u \in users : u.email = last'.body.email
             THEN users' = users /\ last'.inserted = 0
             ELSE /\ users \subseteq users'
                  /\ Cardinality(users') = Cardinality(users) + 1
                  /\ last'.inserted # 0]_vars

C17_Witness ==
    /\ OAuthSucceeded(last)
    /\ last.inserted # 0
    /\ \E i \in issued :
          /\ i.by = "oauth"
          /\ \E u \in users : u._id = i.tok.id /\ u.password # NoHash

\* C18: every user record has a password hash or an external identity id.
C18_AuthPath ==
    \A u \in users :
        \/ u.password # NoHash /\ u.password.pw \notin {Absent, ""}
        \/ u.googleId # Absent

C18_Witness ==
    /\ \E u \in users : u.password # NoHash /\ u.googleId = Absent
    /\ \E u \in users : u.password = NoHash /\ u.googleId # Absent

\* a Login for an email whose user record has no password hash
HashlessLogin(x) ==
    /\ x.route = "login"
    /\ \E u \in users : u.email = x.body.email
    /\ \A u \in users : u.email = x.body.email => u.password = NoHash

C19_Inv ==
    /\ \A x \in Exchanges : HashlessLogin(x) =>
          /\ x.res.token = NoToken
          /\ x.res.status # 200
    /\ \A i \in issued : i.by = "login" =>
          \E u \in users : u._id = i.tok.id /\ u.password # NoHash

\* C19: a password Login for a user record without a password hash is never
\* answered with a token, whatever the password, and the step that ends it
\* signs none.
C19_HashlessLoginNoToken ==
    /\ []C19_Inv
    /\ [][HashlessLogin(last') /\ last' # last => issued' = issued]_vars

C19_Witness ==
    /\ HashlessLogin(last)
    /\ last.found.googleId # Absent
    /\ last.body.password \in Passwords
    /\ last.pc = "done"

====
